---- MODULE Spec2Model ----
(***************************************************************************)
(* A model of the BLS verification benchmark (src/rust/src/main.rs):       *)
(*   - the report driver `main` and the two time-boxed measurement loops   *)
(*     run_verification_benchmark / run_batch_verification_benchmark       *)
(*     (specification Spec, with fairness FairSpec);                       *)
(*   - AttestationData::serialize (specification SpecSerialize);           *)
(*   - calculate_stats (specification SpecStats).                          *)
(*                                                                         *)
(* The cryptographic primitive is external: an element of the pool is      *)
(* modelled by the answer blst's verify gives for it (TRUE for             *)
(* BLST_SUCCESS).  The clock is the variable `now`; it advances by the     *)
(* action Tick, interleaved freely with the program's steps, so any amount *)
(* of time may pass between two statements.  An Instant has no epoch and   *)
(* the program only compares instants of one call, so `now` is measured    *)
(* from the entry of the current benchmark call, and it is followed until  *)
(* it has passed the call's deadline.                                      *)
(***************************************************************************)
EXTENDS Integers, Sequences, FiniteSets

\* ------------------------------------------------------------------ bounds
MaxPool == 2        \* pool sizes 0..MaxPool (main generates 100)
MaxDur == 1         \* trial durations 0..MaxDur clock units (main uses 5)
MaxBatch == 3       \* batch sizes 0..MaxBatch (main uses 1, 10, 50, 100)
MaxCount == 4       \* a loop iteration starts only below MaxCount (count, iterations)
MaxLen == 4         \* calculate_stats: number of samples 0..MaxLen
MaxVal == 5         \* calculate_stats: samples are the floats 1.0 .. MaxVal

NumTrials == 1      \* trials per configuration (main runs 3)

\* main's num_trials
num_trials == NumTrials

VARIABLES
    \* main
    attestations,        \* the pool: attestations[k+1] is verify's answer for element k
    trial_duration,
    batch_sizes,
    mpc,                 \* main's position
    trial,               \* the trial loops' index i
    size_idx,            \* position in batch_sizes (1-based)
    individual_results,
    batch_results,
    \* the running benchmark function
    fpc,                 \* position inside the benchmark function
    duration_seconds,
    batch_size,
    count,
    total_verifications,
    end_time,
    batch_start,
    batch_i,             \* the inner loop's i
    all_valid,
    ret,                 \* the value returned
    now,                 \* Instant::now(), from the entry of the current call
    \* history of the current call
    entry_time,          \* the clock value the deadline was computed from
    observed,            \* the clock value the last loop condition read
    visited,             \* indices handed to verify, in order
    iters,               \* loop iterations entered
    late,                \* units of work that finished at or after end_time
    batch_log,           \* indices handed to verify in the current batch
    \* AttestationData::serialize
    data,
    buf,
    \* calculate_stats
    results,             \* the slice handed to calculate_stats
    results0,            \* its content at the call
    spc,                 \* position inside calculate_stats
    mean,
    sorted,
    median,
    variance,
    std_dev

mainVars == <<attestations, trial_duration, batch_sizes, mpc, trial, size_idx,
              individual_results, batch_results>>
funVars == <<fpc, duration_seconds, batch_size, count, total_verifications,
             end_time, batch_start, batch_i, all_valid, ret>>
histVars == <<entry_time, observed, visited, iters, late, batch_log>>
serVars == <<data, buf>>
statVars == <<results, results0, spc, mean, sorted, median, variance, std_dev>>
vars == <<mainVars, funVars, histVars, now, serVars, statVars>>

\* ----------------------------------------------------------------- helpers
\* the elements of a slice
Range(s) == {s[k] : k \in 1..Len(s)}

\* attestations.len()
PoolLen == Len(attestations)

\* signature.verify(...) == BLST_SUCCESS for pool element idx (0-based)
VerifyOk(idx) == attestations[idx + 1]

\* mutants of BeforeDeadline: the deadline itself still counts as in time;
\* the comparison never fails
BeforeDeadlineInclusive(t, deadline) == t <= deadline
BeforeDeadlineAlways(t, deadline) == t >= 0

\* Instant::now() < end_time
BeforeDeadline(t, deadline) == t < deadline

\* ascending lists of batch sizes, as main's batch_sizes vector
BatchSizeLists == {<<b>> : b \in 0..MaxBatch} \cup {<<1, 2>>}

\* the pools handed to the benchmark functions: generate_test_attestations
\* yields pools whose every element verifies; the others exercise the
\* functions' handling of a failed verification
Pools == UNION {[1..n -> BOOLEAN] : n \in 0..MaxPool}

\* a benchmark function is between its entry and its return or panic
Running == fpc \in {"check", "body", "batch_start", "inner", "assert"}

\* ------------------------------------------------------- idle sub-models
SerIdle == data = <<>> /\ buf = <<>>
StatIdle == /\ results = <<>> /\ results0 = <<>> /\ spc = "off"
            /\ mean = <<>> /\ sorted = <<>> /\ median = <<>>
            /\ variance = <<>> /\ std_dev = <<>>

\* the benchmark's variables before main has started
BenchStart(pool, duration, sizes, pc) ==
    /\ attestations = pool
    /\ trial_duration = duration
    /\ batch_sizes = sizes
    /\ mpc = pc
    /\ trial = 0
    /\ size_idx = 1
    /\ individual_results = <<>>
    /\ batch_results = <<>>
    /\ fpc = "idle"
    /\ duration_seconds = 0
    /\ batch_size = 0
    /\ count = 0
    /\ total_verifications = 0
    /\ end_time = 0
    /\ batch_start = 0
    /\ batch_i = 0
    /\ all_valid = TRUE
    /\ ret = 0
    /\ now = 0
    /\ entry_time = 0
    /\ observed = 0
    /\ batch_log = <<>>
    /\ visited = <<>>
    /\ iters = 0
    /\ late = 0

BenchIdle == BenchStart(<<>>, 0, <<>>, "off")

\* -------------------------------------------------------------------- Init
Init ==
    /\ \E pool \in Pools, duration \in 0..MaxDur, sizes \in BatchSizeLists :
          BenchStart(pool, duration, sizes, "individual_trials")
    /\ SerIdle
    /\ StatIdle

\* ---------------------------------------------- run_verification_benchmark
\* main calls run_verification_benchmark; count = 0 and the deadline is set
CallIndividual ==
    /\ mpc = "individual_trials"
    /\ fpc = "idle"
    /\ trial < num_trials
    /\ duration_seconds' = trial_duration
    /\ count' = 0
    /\ now' = 0
    /\ end_time' = now' + trial_duration
    /\ fpc' = "check"
    /\ ret' = 0
    /\ entry_time' = now'
    /\ observed' = now'
    /\ batch_log' = <<>>
    /\ visited' = <<>>
    /\ iters' = 0
    /\ late' = 0
    /\ UNCHANGED <<mainVars, batch_size, total_verifications, batch_start,
                   batch_i, all_valid, serVars, statVars>>

\* while Instant::now() < end_time { ... }  count
IndividualCheck ==
    /\ mpc = "individual_trials"
    /\ fpc = "check"
    /\ observed' = now
    /\ IF BeforeDeadline(now, end_time)
       THEN /\ iters < MaxCount
            /\ fpc' = "body"
            /\ iters' = iters + 1
            /\ ret' = ret
       ELSE /\ fpc' = "returned"
            /\ ret' = count
            /\ iters' = iters
    /\ UNCHANGED <<mainVars, duration_seconds, batch_size, count,
                   total_verifications, end_time, batch_start, batch_i,
                   all_valid, now, entry_time, visited, late, batch_log,
                   serVars, statVars>>

\* mutant of IndividualIndex: the index saturates instead of wrapping
IndividualIndexNoWrap == IF count < PoolLen THEN count ELSE PoolLen - 1

\* the index of the element the loop body verifies
IndividualIndex == count % PoolLen

\* mutant of IndividualAfterVerify: the assert! is missing
IndividualAfterVerifyNoAssert(ok) ==
    /\ count' = count + 1
    /\ fpc' = "check"
    /\ late' = late + (IF now >= end_time THEN 1 ELSE 0)

\* mutant of IndividualAfterVerify: a success is not counted
IndividualAfterVerifyNoCount(ok) ==
    IF ok
    THEN /\ count' = count
         /\ fpc' = "check"
         /\ late' = late + (IF now >= end_time THEN 1 ELSE 0)
    ELSE /\ fpc' = "panicked"
         /\ UNCHANGED <<count, late>>

\* what the body does with verify's answer: assert!, then count += 1
IndividualAfterVerify(ok) ==
    IF ok
    THEN /\ count' = count + 1
         /\ fpc' = "check"
         /\ late' = late + (IF now >= end_time THEN 1 ELSE 0)
    ELSE /\ fpc' = "panicked"
         /\ UNCHANGED <<count, late>>

\* the loop body: pick attestations[count % len], verify, assert, count += 1
IndividualBody ==
    /\ mpc = "individual_trials"
    /\ fpc = "body"
    /\ IF PoolLen = 0
       THEN \* count % 0 panics
            /\ fpc' = "panicked"
            /\ UNCHANGED <<count, late, visited>>
       ELSE /\ visited' = Append(visited, IndividualIndex)
            /\ IndividualAfterVerify(VerifyOk(IndividualIndex))
    /\ UNCHANGED <<mainVars, duration_seconds, batch_size,
                   total_verifications, end_time, batch_start, batch_i,
                   all_valid, ret, now, entry_time, observed, iters,
                   batch_log, serVars, statVars>>

\* main: verifications_per_second = verifications as f64 / trial_duration
\* as f64 is pushed (kept as the pair of the two numbers); next trial
RecordIndividual ==
    /\ mpc = "individual_trials"
    /\ fpc = "returned"
    /\ individual_results' = Append(individual_results, <<ret, trial_duration>>)
    /\ trial' = trial + 1
    /\ fpc' = "idle"
    /\ UNCHANGED <<attestations, trial_duration, batch_sizes, mpc, size_idx,
                   batch_results, duration_seconds, batch_size, count,
                   total_verifications, end_time, batch_start, batch_i,
                   all_valid, ret, now, histVars, serVars, statVars>>

\* main: the individual trials are over (their statistics are computed by
\* calculate_stats, see SpecStats, and printed); the batch sizes follow
EndIndividualTrials ==
    /\ mpc = "individual_trials"
    /\ fpc = "idle"
    /\ trial = num_trials
    /\ mpc' = "batch_trials"
    /\ trial' = 0
    /\ size_idx' = 1
    /\ batch_results' = <<>>
    /\ UNCHANGED <<attestations, trial_duration, batch_sizes,
                   individual_results, funVars, histVars, now, serVars,
                   statVars>>

\* ---------------------------------------- run_batch_verification_benchmark
CallBatch ==
    /\ mpc = "batch_trials"
    /\ fpc = "idle"
    /\ size_idx <= Len(batch_sizes)
    /\ trial < num_trials
    /\ duration_seconds' = trial_duration
    /\ batch_size' = batch_sizes[size_idx]
    /\ count' = 0
    /\ total_verifications' = 0
    /\ now' = 0
    /\ end_time' = now' + trial_duration
    /\ fpc' = "check"
    /\ ret' = 0
    /\ entry_time' = now'
    /\ observed' = now'
    /\ batch_log' = <<>>
    /\ visited' = <<>>
    /\ iters' = 0
    /\ late' = 0
    /\ UNCHANGED <<mainVars, batch_start, batch_i, all_valid, serVars,
                   statVars>>

\* while Instant::now() < end_time { ... }  total_verifications
BatchCheck ==
    /\ mpc = "batch_trials"
    /\ fpc = "check"
    /\ observed' = now
    /\ IF BeforeDeadline(now, end_time)
       THEN /\ count < MaxCount
            /\ iters < MaxCount
            /\ fpc' = "batch_start"
            /\ iters' = iters + 1
            /\ ret' = ret
       ELSE /\ fpc' = "returned"
            /\ ret' = total_verifications
            /\ iters' = iters
    /\ UNCHANGED <<mainVars, duration_seconds, batch_size, count,
                   total_verifications, end_time, batch_start, batch_i,
                   all_valid, now, entry_time, visited, late, batch_log,
                   serVars, statVars>>

\* let batch_start = count % attestations.len(); let mut all_valid = true;
BatchStart ==
    /\ mpc = "batch_trials"
    /\ fpc = "batch_start"
    /\ IF PoolLen = 0
       THEN \* count % 0 panics
            /\ fpc' = "panicked"
            /\ UNCHANGED <<batch_start, all_valid, batch_i, batch_log>>
       ELSE /\ batch_start' = count % PoolLen
            /\ all_valid' = TRUE
            /\ batch_i' = 0
            /\ batch_log' = <<>>
            /\ fpc' = "inner"
    /\ UNCHANGED <<mainVars, duration_seconds, batch_size, count,
                   total_verifications, end_time, ret, now, entry_time,
                   observed, visited, iters, late, serVars, statVars>>

\* mutant of BatchIndex: the batch's start is ignored
BatchIndexFromZero == batch_i % PoolLen

\* the index of the element the inner loop verifies
BatchIndex == (batch_start + batch_i) % PoolLen

\* mutant of BatchAfterVerify: the break is missing
BatchAfterVerifyNoBreak(ok) ==
    /\ batch_i' = batch_i + 1
    /\ fpc' = "inner"
    /\ all_valid' = (all_valid /\ ok)

\* what the inner loop does with verify's answer: break on a failure
BatchAfterVerify(ok) ==
    IF ok
    THEN /\ batch_i' = batch_i + 1
         /\ fpc' = "inner"
         /\ UNCHANGED all_valid
    ELSE /\ all_valid' = FALSE
         /\ fpc' = "assert"
         /\ UNCHANGED batch_i

\* for i in 0..batch_size { verify; if failed { all_valid = false; break } }
BatchVerify ==
    /\ mpc = "batch_trials"
    /\ fpc = "inner"
    /\ IF batch_i < batch_size
       THEN /\ visited' = Append(visited, BatchIndex)
            /\ batch_log' = Append(batch_log, BatchIndex)
            /\ BatchAfterVerify(VerifyOk(BatchIndex))
       ELSE /\ fpc' = "assert"
            /\ UNCHANGED <<batch_i, all_valid, visited, batch_log>>
    /\ UNCHANGED <<mainVars, duration_seconds, batch_size, count,
                   total_verifications, end_time, batch_start, ret, now,
                   entry_time, observed, iters, late, serVars, statVars>>

\* assert!(all_valid); count += batch_size; total_verifications += batch_size;
BatchAssert ==
    /\ mpc = "batch_trials"
    /\ fpc = "assert"
    /\ IF all_valid
       THEN /\ count' = count + batch_size
            /\ total_verifications' = total_verifications + batch_size
            /\ late' = late + (IF now >= end_time THEN 1 ELSE 0)
            /\ fpc' = "check"
       ELSE /\ fpc' = "panicked"
            /\ UNCHANGED <<count, total_verifications, late>>
    /\ UNCHANGED <<mainVars, duration_seconds, batch_size, end_time,
                   batch_start, batch_i, all_valid, ret, now, entry_time,
                   observed, visited, iters, batch_log, serVars, statVars>>

\* main: the batch trial's verifications_per_second is pushed; next trial
RecordBatch ==
    /\ mpc = "batch_trials"
    /\ fpc = "returned"
    /\ batch_results' = Append(batch_results, <<ret, trial_duration>>)
    /\ trial' = trial + 1
    /\ fpc' = "idle"
    /\ UNCHANGED <<attestations, trial_duration, batch_sizes, mpc, size_idx,
                   individual_results, duration_seconds, batch_size, count,
                   total_verifications, end_time, batch_start, batch_i,
                   all_valid, ret, now, histVars, serVars, statVars>>

\* main: this batch size's trials are over; the next size, or the end
EndBatchSize ==
    /\ mpc = "batch_trials"
    /\ fpc = "idle"
    /\ size_idx <= Len(batch_sizes)
    /\ trial = num_trials
    /\ size_idx' = size_idx + 1
    /\ trial' = 0
    /\ batch_results' = <<>>
    /\ UNCHANGED <<attestations, trial_duration, batch_sizes, mpc,
                   individual_results, funVars, histVars, now, serVars,
                   statVars>>

\* main: every batch size is done; the report ends
Complete ==
    /\ mpc = "batch_trials"
    /\ fpc = "idle"
    /\ size_idx > Len(batch_sizes)
    /\ mpc' = "complete"
    /\ UNCHANGED <<attestations, trial_duration, batch_sizes, trial, size_idx,
                   individual_results, batch_results, funVars, histVars, now,
                   serVars, statVars>>

\* ------------------------------------------------------------------- clock
\* the clock advances while a benchmark function runs
Tick ==
    /\ Running
    /\ now <= end_time
    /\ now' = now + 1
    /\ UNCHANGED <<mainVars, funVars, histVars, serVars, statVars>>

Next ==
    \/ CallIndividual
    \/ IndividualCheck
    \/ IndividualBody
    \/ RecordIndividual
    \/ EndIndividualTrials
    \/ CallBatch
    \/ BatchCheck
    \/ BatchStart
    \/ BatchVerify
    \/ BatchAssert
    \/ RecordBatch
    \/ EndBatchSize
    \/ Complete
    \/ Tick

Spec == Init /\ [][Next]_vars

\* the program's own steps: single-threaded and synchronous, every call returns
Step ==
    \/ CallIndividual \/ IndividualCheck \/ IndividualBody \/ RecordIndividual
    \/ EndIndividualTrials \/ CallBatch \/ BatchCheck \/ BatchStart
    \/ BatchVerify \/ BatchAssert \/ RecordBatch \/ EndBatchSize \/ Complete

\* the clock keeps advancing and the program keeps running
FairSpec == Spec /\ WF_vars(Tick) /\ WF_vars(Step)

\* ============================================== AttestationData::serialize
\* A u64 is four 16-bit limbs, least significant first; a byte is 0..255.
U64Values ==
    {<<0, 0, 0, 0>>, <<1800, 1286, 772, 258>>, <<65535, 65535, 65535, 65535>>}

\* [u8; 32] values: zeroes, 0..31, 255 down to 224
Hash32Values ==
    {[k \in 1..32 |-> 0], [k \in 1..32 |-> k - 1], [k \in 1..32 |-> 256 - k]}

\* rng.gen::<u64>() % 65536
Mod65536(v) == <<v[1], 0, 0, 0>>

AttestationDataValues ==
    [slot : U64Values, index : U64Values, beacon_block_root : Hash32Values,
     source_epoch : {<<1, 0, 0, 0>>, <<0, 0, 0, 32768>>},
     source_root : Hash32Values,
     target_epoch : {<<0, 0, 0, 0>>, <<1800, 1286, 772, 258>>},
     target_root : Hash32Values]

\* byte b (0 = least significant) of the u64 v
ByteOf(v, b) == (v[(b \div 2) + 1] \div (IF b % 2 = 0 THEN 1 ELSE 256)) % 256

\* mutant of WriteU64LE: most significant byte first
WriteU64BE(v) == [k \in 1..8 |-> ByteOf(v, 8 - k)]

\* LittleEndian::write_u64 into an 8-byte array
WriteU64LE(v) == [k \in 1..8 |-> ByteOf(v, k - 1)]

\* AttestationData::serialize
serialize(d) ==
    WriteU64LE(d.slot) \o WriteU64LE(d.index) \o d.beacon_block_root
        \o WriteU64LE(d.source_epoch) \o d.source_root
        \o WriteU64LE(d.target_epoch) \o d.target_root

\* generate_random_attestation: fresh random fields, index below 65536
\* (the next round of generate_test_attestations' loop)
GenerateRandomAttestation ==
    /\ buf # <<>>
    /\ \E d \in AttestationDataValues :
          data' = [d EXCEPT !.index = Mod65536(d.index)]
    /\ buf' = <<>>
    /\ UNCHANGED <<mainVars, funVars, histVars, now, statVars>>

\* let message = attestation.serialize();
Serialize ==
    /\ buf = <<>>
    /\ buf' = serialize(data)
    /\ UNCHANGED <<data, mainVars, funVars, histVars, now, statVars>>

InitSerialize ==
    /\ BenchIdle
    /\ StatIdle
    /\ data \in AttestationDataValues
    /\ buf = <<>>

NextSerialize ==
    \/ GenerateRandomAttestation
    \/ Serialize

SpecSerialize == InitSerialize /\ [][NextSerialize]_vars

\* ========================================================= calculate_stats
\* An f64 is an exact fraction <<numerator, denominator>> or "NaN"; the
\* samples are whole numbers.
SampleLists == UNION {[1..n -> 1..MaxVal] : n \in 0..MaxLen}

RECURSIVE SeqSum(_)
\* results.iter().sum()
SeqSum(s) == IF s = <<>> THEN 0 ELSE s[1] + SeqSum(Tail(s))

\* f64 division of two whole numbers
FDiv(a, b) == IF b = 0 THEN (IF a = 0 THEN "NaN" ELSE "inf") ELSE <<a, b>>

\* a.partial_cmp(b).unwrap_or(Ordering::Equal)
Compare(a, b) == IF a < b THEN "Less" ELSE IF a > b THEN "Greater" ELSE "Equal"

RECURSIVE InsertBy(_, _)
\* x put into the sorted s, behind every element that is not greater
InsertBy(s, x) ==
    IF s = <<>> THEN <<x>>
    ELSE IF Compare(s[1], x) = "Greater" THEN <<x>> \o s
    ELSE <<s[1]>> \o InsertBy(Tail(s), x)

RECURSIVE SortFrom(_, _)
SortFrom(done, rest) ==
    IF rest = <<>> THEN done ELSE SortFrom(InsertBy(done, rest[1]), Tail(rest))

\* mutant of SortBy: the copy is not sorted
SortByNothing(s) == s

\* sorted.sort_by(...): a stable ascending sort
SortBy(s) == SortFrom(<<>>, s)

\* let sum = results.iter().sum(); let mean = sum / results.len() as f64;
StatsMean ==
    /\ spc = "mean"
    /\ mean' = FDiv(SeqSum(results), Len(results))
    /\ spc' = "median"
    /\ UNCHANGED <<results, results0, sorted, median, variance, std_dev,
                   mainVars, funVars, histVars, now, serVars>>

\* the median of the sorted copy
MedianOf(s) ==
    IF Len(s) % 2 = 0
    THEN <<s[Len(s) \div 2] + s[(Len(s) \div 2) + 1], 2>>
    ELSE <<s[(Len(s) \div 2) + 1], 1>>

\* let mut sorted = results.to_vec(); sort; the middle value(s).
\* With no sample, sorted.len() / 2 - 1 underflows: a panic for the
\* subtraction where overflow is checked, else for the index.
StatsMedian ==
    /\ spc = "median"
    /\ sorted' = SortBy(results)
    /\ IF Len(results) = 0
       THEN /\ spc' \in {"panic_subtract_overflow", "panic_index_out_of_bounds"}
            /\ UNCHANGED median
       ELSE /\ median' = MedianOf(sorted')
            /\ spc' = "variance"
    /\ UNCHANGED <<results, results0, mean, variance, std_dev,
                   mainVars, funVars, histVars, now, serVars>>

RECURSIVE SquaredDiffs(_, _, _)
\* the sum over v of (sum - n * v)^2, the numerators of (mean - v)^2
SquaredDiffs(s, sum, n) ==
    IF s = <<>> THEN 0
    ELSE (sum - n * s[1]) * (sum - n * s[1]) + SquaredDiffs(Tail(s), sum, n)

\* variance = sum of (mean - value)^2 / len; std_dev = variance.sqrt()
StatsVariance ==
    /\ spc = "variance"
    /\ variance' = <<SquaredDiffs(results, mean[1], mean[2]),
                     mean[2] * mean[2] * Len(results)>>
    /\ std_dev' = <<"sqrt", variance'>>
    /\ spc' = "returned"
    /\ UNCHANGED <<results, results0, mean, sorted, median,
                   mainVars, funVars, histVars, now, serVars>>

InitStats ==
    /\ BenchIdle
    /\ SerIdle
    /\ results \in SampleLists
    /\ results0 = results
    /\ spc = "mean"
    /\ mean = <<>>
    /\ sorted = <<>>
    /\ median = <<>>
    /\ variance = <<>>
    /\ std_dev = <<>>

NextStats ==
    \/ StatsMean
    \/ StatsMedian
    \/ StatsVariance

SpecStats == InitStats /\ [][NextStats]_vars

\* ------------------------------------------------------------------ claims
InIndividualCall == mpc = "individual_trials" /\ fpc # "idle"
InBatchCall == mpc = "batch_trials" /\ fpc # "idle"
InCall == fpc # "idle"
InUnit == fpc \in {"body", "batch_start", "inner", "assert"}

\* positions in `visited` of the verifications that did not report success
FailedAt == {k \in 1..Len(visited) : ~attestations[visited[k] + 1]}
SucceededAt == {k \in 1..Len(visited) : attestations[visited[k] + 1]}
\* a pool of valid signed attestations: not empty, every element verifies
AllValidPool == PoolLen > 0 /\ \A k \in 1..PoolLen : attestations[k]

\* C1: in both benchmark functions a verification that does not report
\* success aborts the run: after a failure the function is at its assertion
\* or has panicked (never returned, never back in the loop), the failing
\* verification is the last one made (no retry, nothing verified after it),
\* and a panicked process takes no further step.
C1_FailureAborts ==
    /\ (InCall /\ FailedAt # {}) =>
          /\ FailedAt = {Len(visited)}
          /\ fpc \in {"assert", "panicked"}
          /\ (fpc = "assert" => ~all_valid)
    /\ fpc = "panicked" => ~ENABLED Next
    /\ fpc = "returned" => FailedAt = {}

C1_Witness ==
    /\ mpc = "batch_trials"
    /\ fpc = "panicked"
    /\ FailedAt # {}
    /\ Len(visited) >= 2
    /\ Len(individual_results) = num_trials

\* C2: run_verification_benchmark over a non-empty pool verifies, as its
\* k-th verification (k = 0, 1, ...), element k mod poolSize; count is the
\* number of successful verifications; the value returned is that number; so
\* with count > poolSize element 0 has been verified a second time.
C2_IndividualCycles ==
    (InIndividualCall /\ PoolLen > 0) =>
        /\ \A k \in 1..Len(visited) : visited[k] = (k - 1) % PoolLen
        /\ count = Cardinality(SucceededAt)
        /\ (fpc = "returned" => ret = Cardinality(SucceededAt))
        /\ (count >= PoolLen + 1 =>
               Cardinality({k \in 1..Len(visited) : visited[k] = 0}) >= 2)

C2_Witness ==
    /\ InIndividualCall
    /\ fpc = "returned"
    /\ PoolLen = 2
    /\ ret = 4
    /\ visited = <<0, 1, 0, 1>>

\* C3: run_batch_verification_benchmark over a non-empty pool: the j-th batch
\* starts at (j * batchSize) mod poolSize and verifies (start + i) mod
\* poolSize for i = 0 .. batchSize-1, whatever the batch size; the count
\* returned is batchSize times the number of successful batches; count and
\* total_verifications are equal at every iteration boundary.
C3_BatchCycles ==
    (InBatchCall /\ PoolLen > 0) =>
        /\ \A k \in 1..Len(visited) :
              visited[k] = (((((k - 1) \div batch_size) * batch_size) % PoolLen)
                              + ((k - 1) % batch_size)) % PoolLen
        /\ (fpc \in {"inner", "assert"} =>
               batch_start = ((iters - 1) * batch_size) % PoolLen)
        /\ (fpc \in {"check", "returned"} =>
               /\ count = total_verifications
               /\ total_verifications = batch_size * iters
               /\ Len(visited) = total_verifications)
        /\ (fpc = "returned" => ret = batch_size * iters)

C3_Witness ==
    /\ InBatchCall
    /\ fpc = "returned"
    /\ PoolLen = 2
    /\ batch_size = 3
    /\ ret = 6
    /\ batch_start = 1
    /\ visited = <<0, 1, 0, 1, 0, 1>>

\* C4: in both benchmark functions the deadline is the entry time plus the
\* duration and stays so for the whole call; a unit of work is under way
\* only after a loop condition that read a time strictly before the
\* deadline; at most one unit of work finishes at or after the deadline; the
\* function returns only after a loop condition read a time at or past it.
C4_DeadlineRespected ==
    InCall =>
        /\ end_time = entry_time + duration_seconds
        /\ (InUnit => observed < end_time)
        /\ late <= 1
        /\ (fpc = "returned" => observed >= end_time)

C4_Witness ==
    /\ InBatchCall
    /\ fpc = "returned"
    /\ late = 1
    /\ ret > 0
    /\ observed > end_time

\* C5 as stated: with a positive duration and a pool of valid attestations
\* the count returned is at least 1.
C5_AlwaysAtLeastOne ==
    (fpc = "returned" /\ duration_seconds > 0 /\ AllValidPool) => ret >= 1

\* C5 amended: with a positive duration and a pool of valid attestations
\* the count returned is at least 1 exactly when the loop body was entered
\* (the first loop condition read a time before the deadline) and, for the
\* batch function, the batch size is at least 1; otherwise it is 0.
C5_AtLeastOneOnceEntered ==
    (fpc = "returned" /\ duration_seconds > 0 /\ AllValidPool) =>
        /\ (iters >= 1 /\ (mpc = "batch_trials" => batch_size >= 1)) => ret >= 1
        /\ (iters = 0 \/ (mpc = "batch_trials" /\ batch_size = 0)) => ret = 0

C5_Witness ==
    /\ fpc = "returned"
    /\ duration_seconds > 0
    /\ AllValidPool
    /\ mpc = "batch_trials"
    /\ iters >= 1
    /\ ret >= 1

\* C6: every trial terminates: while the clock keeps advancing and the
\* program keeps running, a benchmark function that is running eventually
\* returns or aborts, and main eventually completes or has aborted.
C6_EveryTrialTerminates ==
    /\ [](Running => <>(fpc \in {"returned", "panicked"}))
    /\ <>(mpc = "complete" \/ fpc = "panicked")

C6_Witness ==
    /\ mpc = "complete"
    /\ Len(individual_results) = num_trials
    /\ size_idx = Len(batch_sizes) + 1

\* the u64 whose little-endian bytes are b[1..8]
ReadU64LE(b) == [j \in 1..4 |-> b[2 * j - 1] + 256 * b[2 * j]]

\* C7: serialize returns exactly 128 bytes: slot little-endian at [0:8),
\* index little-endian at [8:16), beaconBlockRoot at [16:48), sourceEpoch
\* little-endian at [48:56), sourceRoot at [56:88), targetEpoch
\* little-endian at [88:96), targetRoot at [96:128).
C7_SerializeLayout ==
    buf # <<>> =>
        /\ Len(buf) = 128
        /\ \A k \in 1..128 : buf[k] \in 0..255
        /\ ReadU64LE(SubSeq(buf, 1, 8)) = data.slot
        /\ ReadU64LE(SubSeq(buf, 9, 16)) = data.index
        /\ SubSeq(buf, 17, 48) = data.beacon_block_root
        /\ ReadU64LE(SubSeq(buf, 49, 56)) = data.source_epoch
        /\ SubSeq(buf, 57, 88) = data.source_root
        /\ ReadU64LE(SubSeq(buf, 89, 96)) = data.target_epoch
        /\ SubSeq(buf, 97, 128) = data.target_root

C7_Witness ==
    /\ buf # <<>>
    /\ data.slot = <<1800, 1286, 772, 258>>
    /\ SubSeq(buf, 1, 8) = <<8, 7, 6, 5, 4, 3, 2, 1>>
    /\ data.index = <<65535, 0, 0, 0>>
    /\ data.source_root # data.target_root
    /\ data.beacon_block_root # data.source_root

\* C8: calculate_stats called with no sample fails with an explicit
\* invalid-argument condition, without dividing by zero and without a
\* non-finite result.
C8_EmptyInputRejected ==
    (results = <<>> /\ spc \notin {"off", "mean"}) =>
        /\ spc = "invalid_argument"
        /\ mean # "NaN"

\* the k-th smallest sample (k = 1 the smallest), by counting
KthSmallest(s, k) ==
    CHOOSE v \in Range(s) :
        /\ Cardinality({h \in 1..Len(s) : s[h] < v}) < k
        /\ k <= Cardinality({h \in 1..Len(s) : s[h] <= v})

\* the median of the samples s as a fraction, by rank
RankMedian(s) ==
    IF Len(s) % 2 = 1
    THEN <<KthSmallest(s, (Len(s) + 1) \div 2), 1>>
    ELSE <<KthSmallest(s, Len(s) \div 2) + KthSmallest(s, (Len(s) \div 2) + 1), 2>>

\* C9: for every non-empty sample sequence the median calculate_stats
\* computes is the middle value by rank for an odd count and the average of
\* the two middle values by rank for an even count (so it depends on the
\* samples, not on their order); the input is left as it was; [1,2,3,4]
\* gives 2.5 and [5] gives 5.
C9_MedianOfSorted ==
    (spc \in {"variance", "returned"} /\ Len(results0) > 0) =>
        /\ median[1] * RankMedian(results0)[2] = RankMedian(results0)[1] * median[2]
        /\ results = results0
        /\ (results0 = <<1, 2, 3, 4>> => median = <<5, 2>>)
        /\ (results0 = <<5>> => median = <<5, 1>>)

C9_Witness ==
    /\ spc = "returned"
    /\ results0 = <<4, 1, 3, 2>>
    /\ median = <<5, 2>>
    /\ sorted = <<1, 2, 3, 4>>

\* the first position of the current batch whose element does not verify
FirstFailure ==
    CHOOSE j \in 0..(batch_size - 1) :
        /\ ~attestations[((batch_start + j) % PoolLen) + 1]
        /\ \A h \in 0..(j - 1) : attestations[((batch_start + h) % PoolLen) + 1]

\* C10: when the inner loop of a batch is over, all_valid holds iff every
\* one of the batch_size cyclically indexed elements verifies; after a
\* failure exactly the elements up to the first failing one were verified.
C10_BatchShortCircuit ==
    (InBatchCall /\ fpc = "assert") =>
        /\ all_valid <=>
              \A j \in 0..(batch_size - 1) :
                  attestations[((batch_start + j) % PoolLen) + 1]
        /\ (all_valid =>
               batch_log = [j \in 1..batch_size |->
                               (batch_start + j - 1) % PoolLen])
        /\ (~all_valid =>
               batch_log = [j \in 1..(FirstFailure + 1) |->
                               (batch_start + j - 1) % PoolLen])

C10_Witness ==
    /\ InBatchCall
    /\ fpc = "assert"
    /\ ~all_valid
    /\ Len(batch_log) >= 2
    /\ Len(batch_log) < batch_size

====
